---- MODULE Spec2Model ----
(***************************************************************************)
(* Model of the window-layout core of the aurora compositor:               *)
(*   src/src/window_manager.rs  WindowManager (the WindowSet + layout)     *)
(*   src/src/shell/xdg.rs       XdgShellHandler (toplevel lifecycle)       *)
(*   src/src/shell/mod.rs       fixup_positions                            *)
(*   src/src/winit.rs           run_winit main loop                        *)
(* Window handles are the integers 1..NumHandles; 0 stands for Option::None*)
(* Sizes and locations are pairs <<w, h>> / <<x, y>>; the empty tuple      *)
(* stands for "no size" / "not mapped".                                    *)
(***************************************************************************)
EXTENDS Integers, Sequences, FiniteSets, TLC

\* ---- bounds of the model ------------------------------------------------
NumHandles == 3
MaxWindows == 3

Handles == 1..NumHandles
None == 0
NoSize == <<>>
NotMapped == <<>>
Origin == <<0, 0>>
OutputSizes == {<<1920, 1080>>, <<1280, 720>>}

VARIABLES
    windows,      \* WindowManager.windows : Vec<WindowElement>
    alive,        \* IsAlive::alive() of every window handle
    toplevels,    \* toplevel surfaces the xdg shell has announced
    outputs,      \* Space.outputs, in registration order: logical sizes
    mapped,       \* Space.elements: location of a mapped window, else NotMapped
    pendingSize,  \* ToplevelSurface server-pending state.size
    sentSize,     \* size carried by the last configure event, <<-1>> if none
    pc,           \* position of run_winit
    crashed,      \* a panic unwound out of the process
    layoutInTick, \* refresh_geometry ran in the current loop iteration
    requests,     \* requests issued by the latest refresh_geometry call
    rgpc,         \* position inside a refresh_geometry call run step by step
    rgi,          \* index of its for loop
    last,         \* the latest operation and the WindowSet it started from
    apps,         \* AppManger.apps : Vec<WindowElement>
    mode,         \* AppManger.mode
    fullscreen,   \* FullscreenSurface in the output's user data
    show_window_preview, \* AuroraState.show_window_preview
    stack,        \* Space.elements, bottom to top
    hasMode,      \* output.current_mode().is_some()
    composed,     \* what the latest output_elements / render_output call gave
    running,      \* AuroraState.running
    frame,        \* the drawing logic of the current loop iteration
    full_redraw,  \* WinitData.full_redraw : u8
    outputLoc     \* Space.outputs: the origin each output is mapped at

vars == <<windows, alive, toplevels, outputs, mapped, pendingSize, sentSize,
          pc, crashed, layoutInTick, requests, rgpc, rgi, last, apps, mode,
          fullscreen, show_window_preview, stack, hasMode, composed, running,
          frame, full_redraw, outputLoc>>

\* the state that layout and the WindowSet never write: composition and the
\* drawing logic of run_winit
renderVars == <<fullscreen, show_window_preview, stack, hasMode, composed,
                running, frame, full_redraw, outputLoc>>

\* the same without the origins of the outputs
drawVars == <<fullscreen, show_window_preview, stack, hasMode, composed,
              running, frame, full_redraw>>

\* output_elements has not been called
NoCompose == [called |-> FALSE, custom |-> <<>>, slot |-> 0, path |-> "none",
              elements |-> <<>>, clear_color |-> <<>>, tracked |-> <<>>,
              handed |-> FALSE]

\* nothing drawn yet: iteration count, render_output calls and events of the
\* current iteration, outcome of the previous iteration's render, the age
\* handed to the damage tracker, the value of full_redraw and the
\* backend.buffer_age() it was chosen from (-1: none in this iteration), and
\* the number of iterations begun since the last reset_buffers (-1: never)
NoFrame == [tick |-> 0, renders |-> 0, events |-> <<>>, outcome |-> "none",
            prev |-> "none", age |-> -1, counter |-> -1, buffer_age |-> -1,
            resetAgo |-> -1]

NeverSent == <<-1>>

\* ---- WindowManager (the WindowSet) ---------------------------------------

Reverse(s) == [i \in 1..Len(s) |-> s[Len(s) + 1 - i]]

\* a push that skips a handle that is already tracked
insert_window_dedup(ws, w) ==
    IF \E i \in DOMAIN ws : ws[i] = w THEN ws ELSE Append(ws, w)

\* Vec::push of a clone of the handle
insert_window(ws, w) == Append(ws, w)

\* Vec::last
get_active_window(ws) == IF Len(ws) = 0 THEN None ELSE ws[Len(ws)]

is_empty(ws) == Len(ws) = 0

\* Vec::retain(|w| w.alive()): walk the vector front to back, keep the live
RECURSIVE retain(_, _, _)
retain(ws, al, i) ==
    IF i > Len(ws) THEN <<>>
    ELSE IF al[ws[i]] THEN <<ws[i]>> \o retain(ws, al, i + 1)
         ELSE retain(ws, al, i + 1)

\* a prune that was left out
remove_dead_window_keep_all(ws, al) == ws

\* a prune that hands the survivors back in reverse order
remove_dead_window_reversed(ws, al) == Reverse(retain(ws, al, 1))

\* a prune that keeps the live handles but moves the oldest to the end
remove_dead_window_rotating(ws, al) ==
    LET r == retain(ws, al, 1)
    IN IF Len(r) > 1 THEN Tail(r) \o <<Head(r)>> ELSE r

remove_dead_window(ws, al) == retain(ws, al, 1)

\* ---- Space ----------------------------------------------------------------

\* Space::refresh drops the elements that are no longer alive
space_refresh(mp, al) == [w \in Handles |-> IF al[w] THEN mp[w] ELSE NotMapped]

\* an output lookup that falls back to an 800x800 area, as place_new_window does
first_output_or_default(outs) == IF Len(outs) = 0 THEN <<800, 800>> ELSE outs[1]

\* space.outputs().next(): the first registered output, None when there is none
first_output(outs) == IF Len(outs) = 0 THEN NoSize ELSE outs[1]

\* ---- the layout loop of refresh_geometry ------------------------------------

\* a request as the layout loop issues it, with the liveness of its target
Req(k, w, al) == [kind |-> k, w |-> w, alive |-> al[w]]

\* body of the for loop for the window at position i (0-based) of
\* windows.iter().rev().enumerate()
layout_window(st, i, w, geo, al) ==
    IF i = 0
    THEN LET sendPending == st.ss[w] = NeverSent \/ st.ss[w] # geo
             \* with_pending_state + send_pending_configure + send_configure
             cfg == IF sendPending
                    THEN <<Req("configure", w, al), Req("configure", w, al)>>
                    ELSE <<Req("configure", w, al)>>
         IN [mp |-> [st.mp EXCEPT ![w] = Origin],
             ps |-> [st.ps EXCEPT ![w] = geo],
             ss |-> [st.ss EXCEPT ![w] = geo],
             rq |-> st.rq \o cfg \o <<Req("map", w, al)>>]
    ELSE [st EXCEPT !.mp[w] = NotMapped,
                    !.rq = st.rq \o <<Req("unmap", w, al)>>]

RECURSIVE layout_loop(_, _, _, _, _)
layout_loop(st, rev, i, geo, al) ==
    IF i >= Len(rev) THEN st
    ELSE layout_loop(layout_window(st, i, rev[i + 1], geo, al), rev, i + 1, geo, al)


\* the values refresh_geometry leaves behind: windows, space, toplevel
\* state, issued requests, and whether the unwrap() on the first output
\* panicked.  space.refresh() and the prune run before the unwrap.
refresh_geometry(ws, al, outs, mp, ps, ss) ==
    LET mp1 == space_refresh(mp, al)
        ws1 == remove_dead_window(ws, al)
        geo == first_output(outs)
        st0 == [mp |-> mp1, ps |-> ps, ss |-> ss, rq |-> <<>>]
    IN IF geo = NoSize
       THEN [ws |-> ws1, st |-> st0, panic |-> TRUE]
       ELSE [ws |-> ws1,
             st |-> layout_loop(st0, Reverse(ws1), 0, geo, al),
             panic |-> FALSE]

\* ---- state machine ----------------------------------------------------------

\* no preview grid computed
NoGrid == [columns |-> 0, rows |-> 0, size |-> <<>>, cells |-> <<>>]

\* no rectangles recorded
NoSnap == [mp |-> <<>>, ps |-> <<>>]

\* record of the latest operation: its name, its argument, the WindowSet it
\* started from; geo: the rectangles the directly preceding layout call left
\* behind when nothing changed in between; framed: the windows the operation
\* sent a frame callback; cells: the preview cells it computed
Op(op, w, pre) ==
    [op |-> op, w |-> w, pre |-> pre, geo |-> NoSnap, framed |-> {},
     cells |-> NoGrid]

Other == Op("other", None, <<>>)

\* AuroraState::init: Space::default(), WindowManager::new()
Init ==
    /\ windows = <<>>
    /\ alive = [w \in Handles |-> TRUE]
    /\ toplevels = {}
    /\ outputs = <<>>
    /\ mapped = [w \in Handles |-> NotMapped]
    /\ pendingSize = [w \in Handles |-> NoSize]
    /\ sentSize = [w \in Handles |-> NeverSent]
    /\ pc = "init"
    /\ crashed = FALSE
    /\ layoutInTick = FALSE
    /\ requests = <<>>
    /\ rgpc = "idle"
    /\ rgi = 0
    /\ last = Op("init", None, <<>>)
    /\ apps = <<>>
    /\ mode = "PREVIEW"
    /\ fullscreen = None
    /\ show_window_preview = FALSE
    /\ stack = <<>>
    /\ hasMode = TRUE
    /\ composed = NoCompose
    /\ running = TRUE
    /\ frame = NoFrame
    /\ full_redraw = 0
    /\ outputLoc = [k \in DOMAIN outputs |-> Origin]

\* the fixup outputs loop that puts every output at the origin
fixup_outputs_stacked(outs) == [k \in DOMAIN outs |-> Origin]

\* fixup_positions, "fixup outputs": space.map_output(&output, offset) for
\* every output in turn, offset.x growing by the width of each
RECURSIVE fixup_outputs_loop(_, _, _, _)
fixup_outputs_loop(outs, k, offset, locs) ==
    IF k > Len(outs) THEN locs
    ELSE fixup_outputs_loop(outs, k + 1, <<offset[1] + outs[k][1], offset[2]>>,
                            Append(locs, offset))

fixup_outputs(outs) == fixup_outputs_loop(outs, 1, Origin, <<>>)

\* no call runs while another one is in progress, none after a panic
Idle == ~crashed /\ rgpc = "idle"

\* state.space.map_output(&output, (0, 0))
MapOutput(s) ==
    /\ Idle
    /\ outputs = <<>>
    /\ outputs' = <<s>>
    /\ outputLoc' = <<Origin>>
    /\ last' = Other
    /\ UNCHANGED <<apps, mode>>
    /\ UNCHANGED drawVars
    /\ UNCHANGED <<windows, alive, toplevels, mapped, pendingSize, sentSize,
                   pc, crashed, layoutInTick, requests, rgpc, rgi>>

\* WindowManager::insert_window
InsertWindow(w) ==
    /\ Idle
    /\ Len(windows) < MaxWindows
    /\ windows' = insert_window(windows, w)
    /\ last' = Op("insert", w, windows)
    /\ UNCHANGED <<apps, mode>>
    /\ UNCHANGED renderVars
    /\ UNCHANGED <<alive, toplevels, outputs, mapped, pendingSize, sentSize,
                   pc, crashed, layoutInTick, requests, rgpc, rgi>>

\* the rectangles (location, requested size) left by the latest operation
\* when that was a completed layout call, NoSnap otherwise
Snapshot ==
    IF last.op \in {"refresh", "resized"} /\ rgpc = "idle" /\ ~crashed
    THEN [mp |-> mapped, ps |-> pendingSize]
    ELSE NoSnap

\* what a whole refresh_geometry call does to the state
DoRefreshGeometry(outs) ==
    LET r == refresh_geometry(windows, alive, outs, mapped, pendingSize, sentSize)
    IN /\ windows' = r.ws
       /\ mapped' = r.st.mp
       /\ pendingSize' = r.st.ps
       /\ sentSize' = r.st.ss
       /\ requests' = r.st.rq
       /\ crashed' = r.panic
       /\ layoutInTick' = TRUE

\* WindowManager::refresh_geometry called on the state's space
RefreshGeometry ==
    /\ Idle
    /\ DoRefreshGeometry(outputs)
    /\ last' = [Op("refresh", None, windows) EXCEPT !.geo = Snapshot]
    /\ UNCHANGED <<apps, mode>>
    /\ UNCHANGED renderVars
    /\ UNCHANGED <<alive, toplevels, outputs, pc, rgpc, rgi>>

\* a Resized handler that may run at any point of the loop iteration
ResizedAnytime(s) ==
    /\ Idle
    /\ Len(outputs) > 0
    /\ outputs' = [outputs EXCEPT ![1] = s]
    /\ outputLoc' = fixup_outputs(outputs')
    /\ DoRefreshGeometry(outputs')
    /\ last' = [Op("resized", None, windows) EXCEPT
                    !.geo = IF outputs' = outputs THEN Snapshot ELSE NoSnap]
    /\ UNCHANGED <<apps, mode>>
    /\ UNCHANGED drawVars
    /\ UNCHANGED <<alive, toplevels, pc, rgpc, rgi>>

\* WinitEvent::Resized: the first output gets the new mode, then
\* fixup_positions re-places the outputs and calls refresh_geometry.
\* Windows are only ever mapped at the origin, inside the output, so
\* fixup_positions finds no orphaned window.
Resized(s) ==
    /\ Idle
    /\ pc \in {"init", "pump"}
    /\ Len(outputs) > 0
    /\ outputs' = [outputs EXCEPT ![1] = s]
    /\ outputLoc' = fixup_outputs(outputs')
    /\ DoRefreshGeometry(outputs')
    /\ last' = [Op("resized", None, windows) EXCEPT
                    !.geo = IF outputs' = outputs THEN Snapshot ELSE NoSnap]
    /\ UNCHANGED <<apps, mode>>
    /\ UNCHANGED drawVars
    /\ UNCHANGED <<alive, toplevels, pc, rgpc, rgi>>

\* the client destroys its surface: alive() turns false for good;
\* XdgShellHandler::toplevel_destroyed has an empty body
Die(w) ==
    /\ ~crashed /\ pc # "stopped"
    /\ alive[w]
    /\ alive' = [alive EXCEPT ![w] = FALSE]
    /\ toplevels' = toplevels \ {w}
    /\ last' = IF rgpc = "idle" THEN Other ELSE last
    /\ UNCHANGED <<apps, mode>>
    /\ UNCHANGED renderVars
    /\ UNCHANGED <<windows, outputs, mapped, pendingSize, sentSize,
                   pc, crashed, layoutInTick, requests, rgpc, rgi>>

\* AuroraState::post_repaint: the windows that are sent a frame callback are
\* the elements of the space that are on the output; a destroyed surface
\* has no callbacks left to send
post_repaint(mp, al) == {w \in Handles : mp[w] # NotMapped /\ al[w]}

PostRepaint ==
    /\ Idle
    /\ Len(outputs) > 0
    /\ last' = [Op("post_repaint", None, windows) EXCEPT
                    !.framed = post_repaint(mapped, alive)]
    /\ UNCHANGED <<apps, mode>>
    /\ UNCHANGED renderVars
    /\ UNCHANGED <<windows, alive, toplevels, outputs, mapped, pendingSize,
                   sentSize, pc, crashed, layoutInTick, requests, rgpc, rgi>>

\* the WindowSet and the layout engine, driven through their public calls
Next ==
    \/ \E s \in OutputSizes : MapOutput(s)
    \/ \E w \in Handles : InsertWindow(w)
    \/ RefreshGeometry
    \/ \E s \in OutputSizes : Resized(s)
    \/ \E w \in Handles : Die(w)
    \/ PostRepaint

Spec == Init /\ [][Next]_vars

\* ---- fixup_positions over several outputs -----------------------------------------

\* most outputs the space is taken to hold
MaxOutputs == 3

\* places an output may have been mapped at before fixup_positions runs
OutputPlaces == {Origin, <<100, 50>>}

\* Space::map_output for an output the space does not hold yet: it goes to the
\* end of space.outputs()
AddOutput(s, loc) ==
    /\ Idle
    /\ Len(outputs) < MaxOutputs
    /\ outputs' = Append(outputs, s)
    /\ outputLoc' = Append(outputLoc, loc)
    /\ last' = Other
    /\ UNCHANGED <<apps, mode>>
    /\ UNCHANGED drawVars
    /\ UNCHANGED <<windows, alive, toplevels, mapped, pendingSize, sentSize,
                   pc, crashed, layoutInTick, requests, rgpc, rgi>>

\* output.change_current_state(Some(mode), ..) on the k-th output
ChangeCurrentState(k, s) ==
    /\ Idle
    /\ k \in DOMAIN outputs
    /\ outputs[k] # s
    /\ outputs' = [outputs EXCEPT ![k] = s]
    /\ last' = Other
    /\ UNCHANGED <<apps, mode>>
    /\ UNCHANGED renderVars
    /\ UNCHANGED <<windows, alive, toplevels, mapped, pendingSize, sentSize,
                   pc, crashed, layoutInTick, requests, rgpc, rgi>>

\* fixup_positions: the outputs are put in a row, then the layout runs; the
\* windows are only ever mapped at the origin, inside the first output once
\* the row is made, so no window is orphaned
FixupPositions ==
    /\ Idle
    /\ outputLoc' = fixup_outputs(outputs)
    /\ DoRefreshGeometry(outputs)
    /\ last' = Op("fixup", None, windows)
    /\ UNCHANGED <<apps, mode>>
    /\ UNCHANGED drawVars
    /\ UNCHANGED <<alive, toplevels, outputs, pc, rgpc, rgi>>

NextOutputs ==
    \/ \E s \in OutputSizes : \E loc \in OutputPlaces : AddOutput(s, loc)
    \/ \E k \in 1..MaxOutputs : \E s \in OutputSizes : ChangeCurrentState(k, s)
    \/ InsertWindow(1)
    \/ FixupPositions

SpecOutputs == Init /\ [][NextOutputs]_vars

\* ---- the WindowSet operations on their own --------------------------------------

\* a prune that also takes the dead windows out of the space
RemoveDeadWindowUnmapping ==
    /\ Idle
    /\ windows' = remove_dead_window(windows, alive)
    /\ mapped' = space_refresh(mapped, alive)
    /\ last' = Op("remove_dead", None, windows)
    /\ UNCHANGED <<apps, mode>>
    /\ UNCHANGED renderVars
    /\ UNCHANGED <<alive, toplevels, outputs, pendingSize, sentSize,
                   pc, crashed, layoutInTick, requests, rgpc, rgi>>

\* WindowManager::remove_dead_window
RemoveDeadWindow ==
    /\ Idle
    /\ windows' = remove_dead_window(windows, alive)
    /\ last' = Op("remove_dead", None, windows)
    /\ UNCHANGED <<apps, mode>>
    /\ UNCHANGED renderVars
    /\ UNCHANGED <<alive, toplevels, outputs, mapped, pendingSize, sentSize,
                   pc, crashed, layoutInTick, requests, rgpc, rgi>>

\* WindowManager::get_active_window: takes &self, the answer is kept in last.w
GetActiveWindow ==
    /\ Idle
    /\ last' = Op("get_active", get_active_window(windows), <<>>)
    /\ UNCHANGED <<apps, mode>>
    /\ UNCHANGED renderVars
    /\ UNCHANGED <<windows, alive, toplevels, outputs, mapped, pendingSize,
                   sentSize, pc, crashed, layoutInTick, requests, rgpc, rgi>>

NextWindowSet ==
    \/ MapOutput(<<1280, 720>>)
    \/ \E w \in {1, 2} : InsertWindow(w)
    \/ RemoveDeadWindow
    \/ GetActiveWindow
    \/ RefreshGeometry
    \/ \E i \in DOMAIN windows : Die(windows[i])

SpecWindowSet == Init /\ [][NextWindowSet]_vars

\* ---- run_winit ----------------------------------------------------------------
\* Nothing in the program calls insert_window, so the WindowSet stays empty
\* while the loop runs.

\* state.space.map_output(&output, (0, 0)); the loop is entered
StartLoop(s) ==
    /\ pc = "init" /\ Idle
    /\ outputs' = <<s>>
    /\ outputLoc' = <<Origin>>
    /\ pc' = "pump"
    /\ last' = Other
    /\ UNCHANGED <<apps, mode>>
    /\ UNCHANGED drawVars
    /\ UNCHANGED <<windows, alive, toplevels, mapped, pendingSize, sentSize,
                   crashed, layoutInTick, requests, rgpc, rgi>>

\* dispatch_new_events returned: PumpStatus::Continue, on to the drawing logic
PumpDone ==
    /\ pc = "pump" /\ Idle
    /\ pc' = "draw"
    /\ last' = Other
    /\ UNCHANGED <<apps, mode>>
    /\ UNCHANGED renderVars
    /\ UNCHANGED <<windows, alive, toplevels, outputs, mapped, pendingSize,
                   sentSize, crashed, layoutInTick, requests, rgpc, rgi>>

\* PumpStatus::Exit: running is cleared and the loop breaks
PumpExit ==
    /\ pc = "pump" /\ Idle
    /\ pc' = "stopped"
    /\ last' = Other
    /\ UNCHANGED <<apps, mode>>
    /\ UNCHANGED renderVars
    /\ UNCHANGED <<windows, alive, toplevels, outputs, mapped, pendingSize,
                   sentSize, crashed, layoutInTick, requests, rgpc, rgi>>

\* the drawing logic of one iteration (pre_repaint .. post_repaint)
Draw ==
    /\ pc = "draw" /\ Idle
    /\ pc' = "dispatch"
    /\ last' = Other
    /\ UNCHANGED <<apps, mode>>
    /\ UNCHANGED renderVars
    /\ UNCHANGED <<windows, alive, toplevels, outputs, mapped, pendingSize,
                   sentSize, crashed, layoutInTick, requests, rgpc, rgi>>

\* XdgShellHandler::new_toplevel, run from event_loop.dispatch: the handler
\* body is empty
NewToplevel(w) ==
    /\ pc = "dispatch" /\ Idle
    /\ w \notin toplevels /\ alive[w]
    /\ toplevels' = toplevels \cup {w}
    /\ last' = Op("new_toplevel", w, windows)
    /\ UNCHANGED <<apps, mode>>
    /\ UNCHANGED renderVars
    /\ UNCHANGED <<windows, alive, outputs, mapped, pendingSize, sentSize,
                   pc, crashed, layoutInTick, requests, rgpc, rgi>>

\* event_loop.dispatch returned Ok: space.refresh(), next iteration
DispatchDone ==
    /\ pc = "dispatch" /\ Idle
    /\ mapped' = space_refresh(mapped, alive)
    /\ pc' = "pump"
    /\ layoutInTick' = FALSE
    /\ last' = Other
    /\ UNCHANGED <<apps, mode>>
    /\ UNCHANGED renderVars
    /\ UNCHANGED <<windows, alive, toplevels, outputs, pendingSize, sentSize,
                   crashed, requests, rgpc, rgi>>

\* event_loop.dispatch returned Err: running is cleared
DispatchError ==
    /\ pc = "dispatch" /\ Idle
    /\ pc' = "stopped"
    /\ last' = Other
    /\ UNCHANGED <<apps, mode>>
    /\ UNCHANGED renderVars
    /\ UNCHANGED <<windows, alive, toplevels, outputs, mapped, pendingSize,
                   sentSize, crashed, layoutInTick, requests, rgpc, rgi>>

NextLoop ==
    \/ \E s \in OutputSizes : StartLoop(s)
    \/ \E s \in OutputSizes : Resized(s)
    \/ PumpDone
    \/ PumpExit
    \/ Draw
    \/ \E w \in Handles : NewToplevel(w)
    \/ \E w \in Handles : Die(w)
    \/ DispatchDone
    \/ DispatchError

SpecLoop == Init /\ [][NextLoop]_vars

\* ---- refresh_geometry run statement by statement ----------------------------
\* The liveness flag of a window is written by the client-side destructor
\* callback; here it may flip between any two statements of the call.

\* space.refresh(); self.remove_dead_window(); first output and its geometry
RgBegin ==
    /\ Idle
    /\ mapped' = space_refresh(mapped, alive)
    /\ windows' = remove_dead_window(windows, alive)
    /\ requests' = <<>>
    /\ layoutInTick' = TRUE
    /\ IF first_output(outputs) = NoSize
       THEN crashed' = TRUE /\ UNCHANGED <<rgpc, rgi>>
       ELSE crashed' = FALSE /\ rgpc' = "loop" /\ rgi' = 0
    /\ last' = Op("refresh", None, windows)
    /\ UNCHANGED <<apps, mode>>
    /\ UNCHANGED renderVars
    /\ UNCHANGED <<alive, toplevels, outputs, pendingSize, sentSize, pc>>

\* one iteration of the for loop over windows.iter().rev().enumerate()
RgStep ==
    /\ rgpc = "loop" /\ ~crashed
    /\ IF rgi >= Len(windows)
       THEN /\ rgpc' = "idle" /\ rgi' = 0
            /\ UNCHANGED <<mapped, pendingSize, sentSize, requests>>
       ELSE LET st == layout_window(
                        [mp |-> mapped, ps |-> pendingSize, ss |-> sentSize,
                         rq |-> requests],
                        rgi, Reverse(windows)[rgi + 1], first_output(outputs), alive)
            IN /\ mapped' = st.mp
               /\ pendingSize' = st.ps
               /\ sentSize' = st.ss
               /\ requests' = st.rq
               /\ rgi' = rgi + 1
               /\ rgpc' = rgpc
    /\ UNCHANGED <<windows, alive, toplevels, outputs, pc, crashed,
                   layoutInTick, last, apps, mode>>
    /\ UNCHANGED renderVars

NextAsync ==
    \/ \E s \in OutputSizes : MapOutput(s)
    \/ \E w \in Handles : InsertWindow(w)
    \/ \E w \in Handles : Die(w)
    \/ RgBegin
    \/ RgStep

SpecAsync == Init /\ [][NextAsync]_vars

\* ---- AppManger: the layout with the two modes ----------------------------------

\* let padding = 200
padding == 200

\* output sizes the Overview layout and the preview grid are tried on
InputSizes == {<<1920, 1080>>, <<1280, 720>>, <<1366, 768>>, <<641, 481>>,
               <<400, 400>>, <<30, 30>>}

\* AppManger::insert_window: Vec::push
app_insert_window(ap, w) == Append(ap, w)

\* AppManger::remove_dead_window: Vec::retain(|w| w.alive())
app_remove_dead_window(ap, al) == retain(ap, al, 1)

\* a size that takes the padding off once, not on both sides
preview_window_size_once(ow, oh) == <<ow - padding, oh - padding>>

\* (window_width, window_height) of Mode::PREVIEW
preview_window_size(ow, oh) == <<ow - padding * 2, oh - padding * 2>>

\* a placement that forgets the padding for the windows after the first
preview_x_unpadded(i, window_width) ==
    IF i > 0 THEN window_width * i ELSE padding

\* a placement that steps by the padding instead of the window width
preview_x_by_padding(i, window_width) ==
    IF i > 0 THEN padding * i + padding ELSE padding

\* a placement that leaves one padding between consecutive windows
preview_x_spread(i, window_width) ==
    IF i > 0 THEN (window_width + padding) * i + padding ELSE padding

\* x of the window at position i: padding, replaced for i > 0
preview_x(i, window_width) ==
    IF i > 0 THEN window_width * i + padding ELSE padding

CfgReq(w, al, size) ==
    [kind |-> "configure", w |-> w, alive |-> al[w], size |-> size]
MapReq(w, al, loc) ==
    [kind |-> "map", w |-> w, alive |-> al[w], loc |-> loc]

\* with_pending_state + send_pending_configure: a configure event goes out
\* only when the pending state differs from the last one sent
app_configure(st, w, size, al) ==
    [st EXCEPT !.ps[w] = size,
               !.ss[w] = size,
               !.rq = IF st.ss[w] = NeverSent \/ st.ss[w] # size
                      THEN st.rq \o <<CfgReq(w, al, size)>>
                      ELSE st.rq]

\* body of the for loop of either mode for the window at position i
\* (0-based) of apps.iter().rev().enumerate()
app_layout_window(st, md, i, w, ow, oh, al) ==
    IF md = "INTERACTIVE"
    THEN IF i = 0
         THEN LET st1 == app_configure(st, w, <<ow, oh>>, al)
              IN [st1 EXCEPT !.mp[w] = Origin,
                             !.rq = st1.rq \o <<MapReq(w, al, Origin)>>]
         ELSE [st EXCEPT !.mp[w] = NotMapped,
                         !.rq = st.rq \o <<Req("unmap", w, al)>>]
    ELSE LET size == preview_window_size(ow, oh)
             loc == <<preview_x(i, size[1]), padding>>
             st1 == app_configure(st, w, size, al)
         IN [st1 EXCEPT !.mp[w] = loc,
                        !.rq = st1.rq \o <<MapReq(w, al, loc)>>]

RECURSIVE app_layout_loop(_, _, _, _, _, _, _)
app_layout_loop(st, md, rev, i, ow, oh, al) ==
    IF i >= Len(rev) THEN st
    ELSE app_layout_loop(app_layout_window(st, md, i, rev[i + 1], ow, oh, al),
                         md, rev, i + 1, ow, oh, al)

\* AppManger::refresh_geometry
app_refresh_geometry(ap, md, al, outs, mp, ps, ss) ==
    LET mp1 == space_refresh(mp, al)
        ap1 == app_remove_dead_window(ap, al)
        geo == first_output(outs)
        st0 == [mp |-> mp1, ps |-> ps, ss |-> ss, rq |-> <<>>]
    IN IF geo = NoSize
       THEN [ap |-> ap1, st |-> st0, panic |-> TRUE]
       ELSE [ap |-> ap1,
             st |-> app_layout_loop(st0, md, Reverse(ap1), 0, geo[1], geo[2], al),
             panic |-> FALSE]

\* AppManger::new() on a space whose output is already mapped
InitOverview ==
    /\ windows = <<>>
    /\ alive = [w \in Handles |-> TRUE]
    /\ toplevels = {}
    /\ outputs \in {<<s>> : s \in InputSizes}
    /\ mapped = [w \in Handles |-> NotMapped]
    /\ pendingSize = [w \in Handles |-> NoSize]
    /\ sentSize = [w \in Handles |-> NeverSent]
    /\ pc = "init"
    /\ crashed = FALSE
    /\ layoutInTick = FALSE
    /\ requests = <<>>
    /\ rgpc = "idle"
    /\ rgi = 0
    /\ last = Op("init", None, <<>>)
    /\ apps = <<>>
    /\ mode = "PREVIEW"
    /\ fullscreen = None
    /\ show_window_preview = FALSE
    /\ stack = <<>>
    /\ hasMode = TRUE
    /\ composed = NoCompose
    /\ running = TRUE
    /\ frame = NoFrame
    /\ full_redraw = 0
    /\ outputLoc = [k \in DOMAIN outputs |-> Origin]

AppInsertWindow(w) ==
    /\ Idle
    /\ Len(apps) < MaxWindows
    /\ apps' = app_insert_window(apps, w)
    /\ last' = Op("app_insert", w, apps)
    /\ UNCHANGED <<windows, alive, toplevels, outputs, mapped, pendingSize,
                   sentSize, pc, crashed, layoutInTick, requests, rgpc, rgi,
                   mode>>
    /\ UNCHANGED renderVars

AppRefreshGeometry ==
    /\ Idle
    /\ LET r == app_refresh_geometry(apps, mode, alive, outputs, mapped,
                                     pendingSize, sentSize)
       IN /\ apps' = r.ap
          /\ mapped' = r.st.mp
          /\ pendingSize' = r.st.ps
          /\ sentSize' = r.st.ss
          /\ requests' = r.st.rq
          /\ crashed' = r.panic
    /\ last' = Op("app_refresh", None, apps)
    /\ UNCHANGED <<windows, alive, toplevels, outputs, pc, layoutInTick,
                   rgpc, rgi, mode>>
    /\ UNCHANGED renderVars

NextOverview ==
    \/ \E w \in Handles : AppInsertWindow(w)
    \/ \E w \in Handles : Die(w)
    \/ AppRefreshGeometry

SpecOverview == InitOverview /\ [][NextOverview]_vars

\* ---- space_preview_elements: the preview grid ---------------------------------

\* most elements the space is taken to hold
MaxElements == 9

\* let preview_padding = 10
preview_padding == 10

\* let max_elements_per_row = 4
max_elements_per_row == 4

\* a column count that takes the larger of the two
elements_per_row_max(n) ==
    IF n > max_elements_per_row THEN n ELSE max_elements_per_row

\* usize::min(elements_on_space, max_elements_per_row)
elements_per_row(n) ==
    IF n < max_elements_per_row THEN n ELSE max_elements_per_row

\* f64::ceil(elements_on_space as f64 / elements_per_row as f64)
rows(n) == (n + elements_per_row(n) - 1) \div elements_per_row(n)

\* a division that truncates instead of rounding
round_div_trunc(a, b) == a \div b

\* f64::round(a / b) for a >= 0, b > 0: to nearest, halves away from zero
round_div(a, b) == (2 * a + b) \div (2 * b)

\* a preview box that does not take the padding off
preview_size_unpadded(n, ow, oh) ==
    <<round_div(ow, elements_per_row(n)), round_div(oh, rows(n))>>

\* preview_size: the size of each preview box
preview_size(n, ow, oh) ==
    <<round_div(ow, elements_per_row(n)) - preview_padding * 2,
      round_div(oh, rows(n)) - preview_padding * 2>>

\* preview_location of the element with index element_index
preview_location(element_index, n, size) ==
    LET column == element_index % elements_per_row(n)
        row == element_index \div elements_per_row(n)
    IN <<preview_padding + (preview_padding + size[1]) * column,
         preview_padding + (preview_padding + size[2]) * row>>

\* the constrain rectangles space_preview_elements hands to
\* constrain_space_element, in element order
space_preview_elements(n, ow, oh) ==
    [columns |-> elements_per_row(n),
     rows |-> rows(n),
     size |-> preview_size(n, ow, oh),
     cells |-> [k \in 1..n |->
                  [loc |-> preview_location(k - 1, n, preview_size(n, ow, oh)),
                   size |-> preview_size(n, ow, oh)]]]

\* a preview pass that also moves every mapped window to the first cell
SpacePreviewElementsMapping(n) ==
    /\ Idle
    /\ Len(outputs) > 0
    /\ n >= Cardinality({w \in Handles : mapped[w] # NotMapped})
    /\ mapped' = [w \in Handles |->
                     IF mapped[w] # NotMapped
                     THEN <<preview_padding, preview_padding>> ELSE mapped[w]]
    /\ last' = [Op("preview", None, windows) EXCEPT
                    !.cells = space_preview_elements(n, outputs[1][1],
                                                     outputs[1][2])]
    /\ UNCHANGED <<windows, alive, toplevels, outputs, pendingSize,
                   sentSize, pc, crashed, layoutInTick, requests, rgpc, rgi,
                   apps, mode>>
    /\ UNCHANGED renderVars

\* space_preview_elements(renderer, &space, &output) with n elements of the
\* space on the output: the space and the output are only read
SpacePreviewElements(n) ==
    /\ Idle
    /\ Len(outputs) > 0
    /\ n >= Cardinality({w \in Handles : mapped[w] # NotMapped})
    /\ last' = [Op("preview", None, windows) EXCEPT
                    !.cells = space_preview_elements(n, outputs[1][1],
                                                     outputs[1][2])]
    /\ UNCHANGED <<windows, alive, toplevels, outputs, mapped, pendingSize,
                   sentSize, pc, crashed, layoutInTick, requests, rgpc, rgi,
                   apps, mode>>
    /\ UNCHANGED renderVars

NextGrid ==
    \/ \E n \in 1..MaxElements : SpacePreviewElements(n)
    \/ \E w \in Handles : InsertWindow(w)
    \/ RefreshGeometry

SpecGrid == InitOverview /\ [][NextGrid]_vars

\* ---- output_elements / render_output: composing one frame -------------------
\* A render element is written [kind, of, loc]: the elements a window (or a
\* caller's custom element) gives at a location stand as one entry. Layer
\* surfaces are left out; the output has scale 1 and its mode size is the
\* size the space knows it by.

CLEAR_COLOR == <<0, 0, 0, 1>>
CLEAR_COLOR_FULLSCREEN == <<0, 0, 0, 0>>

\* the custom_elements a caller may pass (run_winit passes the empty Vec)
CustomLists == {<<>>, <<1, 2>>}

Element(kind, of, loc) == [kind |-> kind, of |-> of, loc |-> loc]

\* custom_elements.into_iter().map(OutputRenderElements::from)
custom_render_elements(custom) ==
    [k \in 1..Len(custom) |-> Element("custom", custom[k], Origin)]

\* a slot read that hands the window back whether or not it is alive
fullscreen_get_unchecked(slot, al) == slot

\* FullscreenSurface::get: a dead window is dropped from the slot first;
\* the value is both what is returned and what the slot holds afterwards
fullscreen_get(slot, al) ==
    IF slot # None /\ ~al[slot] THEN None ELSE slot

\* AsRenderElements::render_elements(&window, renderer, (0, 0), scale, 1.0)
window_render_elements(w) == <<Element("window", w, Origin)>>

\* space_preview_elements as render elements: element k of
\* space.elements_for_output(output) constrained to cell k
preview_render_elements(stk, has_mode, out) ==
    LET size == IF has_mode THEN out ELSE <<0, 0>>
        grid == space_preview_elements(Len(stk), size[1], size[2])
    IN [k \in 1..Len(stk) |-> Element("preview", stk[k], grid.cells[k].loc)]

\* smithay::desktop::space::space_render_elements(renderer, [space], output,
\* 1.0): the elements of the space front to back
space_render_elements(stk, mp) ==
    [k \in 1..Len(stk) |-> Element("space", Reverse(stk)[k], mp[Reverse(stk)[k]])]

\* what output_elements returns: the element list, the clear color, the
\* slot after the read, and whether expect("output without mode?") panicked
Composition(path, elements, color, slot, panic) ==
    [path |-> path, elements |-> elements, clear_color |-> color,
     slot |-> slot, panic |-> panic]

\* an else branch that gives back what it has built when the space elements
\* cannot be had
normal_elements_partial(custom, stk, mp, preview, has_mode, out) ==
    LET output_render_elements ==
            custom_render_elements(custom) \o
            (IF preview /\ Len(stk) > 0
             THEN preview_render_elements(stk, has_mode, out) ELSE <<>>)
    IN IF ~has_mode
       THEN Composition("normal", output_render_elements, CLEAR_COLOR, None, FALSE)
       ELSE Composition("normal",
                        output_render_elements \o space_render_elements(stk, mp),
                        CLEAR_COLOR, None, FALSE)

\* an else branch that leaves the previews out
normal_elements_no_preview(custom, stk, mp, preview, has_mode, out) ==
    IF ~has_mode
    THEN Composition("normal", <<>>, <<>>, None, TRUE)
    ELSE Composition("normal",
                     custom_render_elements(custom) \o space_render_elements(stk, mp),
                     CLEAR_COLOR, None, FALSE)

\* an else branch that clears to the transparent color
normal_elements_transparent(custom, stk, mp, preview, has_mode, out) ==
    LET output_render_elements ==
            custom_render_elements(custom) \o
            (IF preview /\ Len(stk) > 0
             THEN preview_render_elements(stk, has_mode, out) ELSE <<>>)
    IN IF ~has_mode
       THEN Composition("normal", <<>>, <<>>, None, TRUE)
       ELSE Composition("normal",
                        output_render_elements \o space_render_elements(stk, mp),
                        CLEAR_COLOR_FULLSCREEN, None, FALSE)

\* the else branch of output_elements
normal_elements(custom, stk, mp, preview, has_mode, out) ==
    LET output_render_elements ==
            custom_render_elements(custom) \o
            (IF preview /\ Len(stk) > 0
             THEN preview_render_elements(stk, has_mode, out) ELSE <<>>)
    IN IF ~has_mode
       THEN Composition("normal", <<>>, <<>>, None, TRUE)
       ELSE Composition("normal",
                        output_render_elements \o space_render_elements(stk, mp),
                        CLEAR_COLOR, None, FALSE)

\* a fullscreen branch that also draws the space underneath
fullscreen_elements_over_space(custom, w, stk, mp) ==
    Composition("fullscreen",
                custom_render_elements(custom) \o window_render_elements(w)
                    \o space_render_elements(stk, mp),
                CLEAR_COLOR_FULLSCREEN, w, FALSE)

\* a fullscreen branch that clears to the opaque color
fullscreen_elements_opaque(custom, w, stk, mp) ==
    Composition("fullscreen",
                custom_render_elements(custom) \o window_render_elements(w),
                CLEAR_COLOR, w, FALSE)

\* the if branch of output_elements
fullscreen_elements(custom, w, stk, mp) ==
    Composition("fullscreen",
                custom_render_elements(custom) \o window_render_elements(w),
                CLEAR_COLOR_FULLSCREEN, w, FALSE)

\* output_elements(output, space, custom_elements, renderer,
\* show_window_preview)
output_elements(custom, slot, al, stk, mp, preview, has_mode, out) ==
    LET window == fullscreen_get(slot, al)
    IN IF window # None
       THEN fullscreen_elements(custom, window, stk, mp)
       ELSE normal_elements(custom, stk, mp, preview, has_mode, out)

\* drop w from a sequence of handles
Without(stk, w) == SelectSeq(stk, LAMBDA h : h # w)

\* the space and the output as run_winit has them when the loop starts: one
\* output of 1280x720 mapped; the output's mode is drawn from modes
ComposeStart(modes) ==
    /\ windows = <<>>
    /\ alive = [w \in Handles |-> TRUE]
    /\ toplevels = {}
    /\ outputs = <<<<1280, 720>>>>
    /\ mapped = [w \in Handles |-> NotMapped]
    /\ pendingSize = [w \in Handles |-> NoSize]
    /\ sentSize = [w \in Handles |-> NeverSent]
    /\ pc = "init"
    /\ crashed = FALSE
    /\ layoutInTick = FALSE
    /\ requests = <<>>
    /\ rgpc = "idle"
    /\ rgi = 0
    /\ last = Op("init", None, <<>>)
    /\ apps = <<>>
    /\ mode = "PREVIEW"
    /\ fullscreen = None
    /\ show_window_preview = FALSE
    /\ stack = <<>>
    /\ hasMode \in modes
    /\ composed = NoCompose
    /\ running = TRUE
    /\ frame = NoFrame
    /\ full_redraw = 0
    /\ outputLoc = [k \in DOMAIN outputs |-> Origin]

\* output.change_current_state(Some(mode), ..) has run (winit.rs)
InitCompose == ComposeStart({TRUE})

\* output_elements on an output with or without a mode
InitComposeAnyMode == ComposeStart(BOOLEAN)

layoutVars == <<windows, toplevels, outputs, pendingSize, sentSize, pc,
                layoutInTick, requests, rgpc, rgi, apps, mode, running, frame,
                full_redraw, outputLoc>>

\* space.map_element(window, (0, 0), true): mapped and raised to the top
MapElement(w) ==
    /\ Idle
    /\ alive[w]
    /\ mapped' = [mapped EXCEPT ![w] = Origin]
    /\ stack' = Append(Without(stack, w), w)
    /\ composed' = NoCompose
    /\ last' = Op("map_element", w, windows)
    /\ UNCHANGED <<alive, crashed, fullscreen, show_window_preview, hasMode>>
    /\ UNCHANGED layoutVars

\* space.unmap_elem(window)
UnmapElem(w) ==
    /\ Idle
    /\ mapped[w] # NotMapped
    /\ mapped' = [mapped EXCEPT ![w] = NotMapped]
    /\ stack' = Without(stack, w)
    /\ composed' = NoCompose
    /\ last' = Op("unmap_elem", w, windows)
    /\ UNCHANGED <<alive, crashed, fullscreen, show_window_preview, hasMode>>
    /\ UNCHANGED layoutVars

\* state.space.refresh(): dead elements leave the space
SpaceRefresh ==
    /\ Idle
    /\ mapped' = space_refresh(mapped, alive)
    /\ stack' = SelectSeq(stack, LAMBDA h : alive[h])
    /\ composed' = NoCompose
    /\ last' = Op("space_refresh", None, windows)
    /\ UNCHANGED <<alive, crashed, fullscreen, show_window_preview, hasMode>>
    /\ UNCHANGED layoutVars

\* FullscreenSurface::set
FullscreenSet(w) ==
    /\ Idle
    /\ fullscreen' = w
    /\ composed' = NoCompose
    /\ last' = Op("fullscreen_set", w, windows)
    /\ UNCHANGED <<alive, crashed, mapped, stack, show_window_preview, hasMode>>
    /\ UNCHANGED layoutVars

\* FullscreenSurface::clear
FullscreenClear ==
    /\ Idle
    /\ fullscreen # None
    /\ fullscreen' = None
    /\ composed' = NoCompose
    /\ last' = Op("fullscreen_clear", fullscreen, windows)
    /\ UNCHANGED <<alive, crashed, mapped, stack, show_window_preview, hasMode>>
    /\ UNCHANGED layoutVars

\* state.show_window_preview = b (a pub field)
SetShowWindowPreview(b) ==
    /\ Idle
    /\ show_window_preview # b
    /\ show_window_preview' = b
    /\ composed' = NoCompose
    /\ last' = Op("show_window_preview", None, windows)
    /\ UNCHANGED <<alive, crashed, mapped, stack, fullscreen, hasMode>>
    /\ UNCHANGED layoutVars

\* the record of a call: the inputs it read, what it returned, and what the
\* damage tracker was given
Composed(custom, slot, r, handed) ==
    [called |-> TRUE, custom |-> custom, slot |-> slot, path |-> r.path,
     elements |-> r.elements, clear_color |-> r.clear_color,
     tracked |-> IF handed THEN r.elements ELSE <<>>, handed |-> handed]

\* output_elements(&output, &space, custom, renderer, show_window_preview)
OutputElements(custom) ==
    /\ Idle
    /\ LET r == output_elements(custom, fullscreen, alive, stack, mapped,
                                show_window_preview, hasMode, outputs[1])
       IN /\ fullscreen' = r.slot
          /\ crashed' = r.panic
          /\ composed' = Composed(custom, fullscreen, r, FALSE)
    /\ last' = Op("output_elements", None, windows)
    /\ UNCHANGED <<alive, mapped, stack, show_window_preview, hasMode>>
    /\ UNCHANGED layoutVars

\* render_output: output_elements, then damage_tracker.render_output(renderer,
\* age, &elements, clear_color)
RenderOutput(custom) ==
    /\ Idle
    /\ LET r == output_elements(custom, fullscreen, alive, stack, mapped,
                                show_window_preview, hasMode, outputs[1])
       IN /\ fullscreen' = r.slot
          /\ crashed' = r.panic
          /\ composed' = Composed(custom, fullscreen, r, ~r.panic)
    /\ last' = Op("render_output", None, windows)
    /\ UNCHANGED <<alive, mapped, stack, show_window_preview, hasMode>>
    /\ UNCHANGED layoutVars

NextCompose ==
    \/ \E w \in Handles : MapElement(w)
    \/ \E w \in Handles : UnmapElem(w)
    \/ \E w \in Handles : Die(w)
    \/ SpaceRefresh
    \/ \E w \in Handles : FullscreenSet(w)
    \/ FullscreenClear
    \/ \E b \in BOOLEAN : SetShowWindowPreview(b)
    \/ \E custom \in CustomLists : OutputElements(custom)
    \/ \E custom \in CustomLists : RenderOutput(custom)

SpecCompose == InitCompose /\ [][NextCompose]_vars

SpecComposeAnyMode == InitComposeAnyMode /\ [][NextCompose]_vars

\* ---- run_winit: the drawing logic of one loop iteration, step by step -------
\* frame.events lists what the current iteration has done so far:
\*   "commit_timer"    pre_repaint: commit_timer_state.signal_until(frame_target)
\*   "compose"         output_elements built the element list
\*   "render"          damage_tracker.render_output was called
\*   "submit"          backend.submit(Some(damage)) returned Ok
\*   "submit_failed"   backend.submit(Some(damage)) returned Err
\*   "feedback"        output_presentation_feedback.presented(..)
\*   "fifo_barrier"    post_repaint: fifo_barrier.signal()
\*   "frame_callbacks" post_repaint: window.send_frame(..)
\* frame.outcome is render_res: "damage" and "no_damage" for Ok with and
\* without damage, "recoverable" for an Err other than ContextLost,
\* "context_lost" for Err(SwapBuffersError::ContextLost).

\* most loop iterations followed
MaxTicks == 4

RenderErrors == {"recoverable", "context_lost"}

Did(events) == [frame EXCEPT !.events = frame.events \o events]

frameVars == <<windows, alive, toplevels, outputs, mapped, pendingSize,
               sentSize, crashed, layoutInTick, requests, rgpc, rgi, apps,
               mode, show_window_preview, hasMode, outputLoc>>

\* state.space.map_output(&output, (0, 0)); on to the while loop
EnterLoop ==
    /\ pc = "init" /\ Idle
    /\ pc' = "while"
    /\ last' = Other
    /\ UNCHANGED <<fullscreen, stack, composed, running, frame>>
    /\ UNCHANGED frameVars
    /\ UNCHANGED full_redraw

\* while state.running.load(Ordering::SeqCst): a new iteration, or the end
LoopCheck ==
    /\ pc = "while" /\ Idle
    /\ IF running
       THEN /\ frame.tick < MaxTicks
            /\ pc' = "pump"
            /\ frame' = [tick |-> frame.tick + 1, renders |-> 0,
                         events |-> <<>>, outcome |-> "none",
                         prev |-> frame.outcome, age |-> -1, counter |-> -1,
                         buffer_age |-> -1, resetAgo |-> frame.resetAgo]
       ELSE /\ pc' = "stopped"
            /\ frame' = frame
    /\ last' = Other
    /\ UNCHANGED <<fullscreen, stack, composed, running>>
    /\ UNCHANGED frameVars
    /\ UNCHANGED full_redraw

\* winit.dispatch_new_events returned PumpStatus::Continue
FramePump ==
    /\ pc = "pump" /\ Idle
    /\ pc' = "pre_repaint"
    /\ last' = Other
    /\ UNCHANGED <<fullscreen, stack, composed, running, frame>>
    /\ UNCHANGED frameVars
    /\ UNCHANGED full_redraw

\* a PumpStatus::Exit arm without the break
FramePumpExitNoBreak ==
    /\ pc = "pump" /\ Idle
    /\ running' = FALSE
    /\ pc' = "pre_repaint"
    /\ last' = Other
    /\ UNCHANGED <<fullscreen, stack, composed, frame>>
    /\ UNCHANGED frameVars
    /\ UNCHANGED full_redraw

\* PumpStatus::Exit: running.store(false); break
FramePumpExit ==
    /\ pc = "pump" /\ Idle
    /\ running' = FALSE
    /\ pc' = "stopped"
    /\ last' = Other
    /\ UNCHANGED <<fullscreen, stack, composed, frame>>
    /\ UNCHANGED frameVars
    /\ UNCHANGED full_redraw

\* a pre_repaint that also does the work of post_repaint
PreRepaintWithPostRepaint ==
    /\ pc = "pre_repaint" /\ Idle
    /\ frame' = Did(<<"commit_timer", "fifo_barrier", "frame_callbacks">>)
    /\ pc' = "full_redraw"
    /\ last' = Other
    /\ UNCHANGED <<fullscreen, stack, composed, running>>
    /\ UNCHANGED frameVars
    /\ UNCHANGED full_redraw

\* state.pre_repaint(&output, frame_target)
PreRepaint ==
    /\ pc = "pre_repaint" /\ Idle
    /\ frame' = Did(<<"commit_timer">>)
    /\ pc' = "full_redraw"
    /\ last' = Other
    /\ UNCHANGED <<fullscreen, stack, composed, running>>
    /\ UNCHANGED frameVars
    /\ UNCHANGED full_redraw

\* self.full_redraw = 4
FullRedrawReset == 4

\* backend.buffer_age() gave None
NoAge == -1

\* what backend.buffer_age() may give
BufferAges == {NoAge, 0, 2}

\* u8::wrapping_sub
wrapping_sub(x, y) == (x + 256 - y) % 256

\* u8::saturating_sub
saturating_sub(x, y) == IF x < y THEN 0 ELSE x - y

\* Option::unwrap_or
unwrap_or(opt, default) == IF opt = NoAge THEN default ELSE opt

\* an age that is forced to 0 only while more than one redraw is left
choose_age_late(counter, buffer_age) ==
    IF counter > 1 THEN 0 ELSE unwrap_or(buffer_age, 0)

\* let age = if *full_redraw > 0 { 0 } else { backend.buffer_age().unwrap_or(0) }
choose_age(counter, buffer_age) ==
    IF counter > 0 THEN 0 ELSE unwrap_or(buffer_age, 0)

\* Backend::reset_buffers for WinitData, called while events are handled
ResetBuffers ==
    /\ pc \in {"pump", "dispatch"} /\ Idle
    /\ full_redraw # FullRedrawReset
    /\ full_redraw' = FullRedrawReset
    /\ frame' = [frame EXCEPT !.resetAgo = 0]
    /\ last' = Other
    /\ UNCHANGED <<fullscreen, stack, composed, running, pc>>
    /\ UNCHANGED frameVars

\* *full_redraw = full_redraw.saturating_sub(1)
DecrementFullRedraw ==
    /\ pc = "full_redraw" /\ Idle
    /\ full_redraw' = saturating_sub(full_redraw, 1)
    /\ frame' = [frame EXCEPT !.resetAgo = IF @ < 0 THEN @ ELSE @ + 1]
    /\ pc' = "bind"
    /\ last' = Other
    /\ UNCHANGED <<fullscreen, stack, composed, running>>
    /\ UNCHANGED frameVars

\* backend.bind(): Ok, or an Err that and_then passes on as render_res
Bind(res) ==
    /\ pc = "bind" /\ Idle
    /\ IF res = "ok"
       THEN pc' = "render" /\ frame' = frame
       ELSE pc' = "match" /\ frame' = [frame EXCEPT !.outcome = res]
    /\ last' = Other
    /\ UNCHANGED <<fullscreen, stack, composed, running>>
    /\ UNCHANGED frameVars
    /\ UNCHANGED full_redraw

\* render_output(&output, space, elements, renderer, damage_tracker, age,
\* show_window_preview) with the empty custom Vec, and its map_err
FrameRenderOutput(res, buffer_age) ==
    /\ pc = "render" /\ Idle
    /\ LET r == output_elements(<<>>, fullscreen, alive, stack, mapped,
                                show_window_preview, hasMode, outputs[1])
       IN /\ fullscreen' = r.slot
          /\ composed' = Composed(<<>>, fullscreen, r, TRUE)
    /\ frame' = [Did(<<"compose", "render">>) EXCEPT
                    !.renders = frame.renders + 1, !.outcome = res,
                    !.age = choose_age(full_redraw, buffer_age),
                    !.counter = full_redraw,
                    !.buffer_age = buffer_age]
    /\ pc' = "match"
    /\ last' = Op("render_output", None, windows)
    /\ UNCHANGED <<stack, running>>
    /\ UNCHANGED frameVars
    /\ UNCHANGED full_redraw

\* a submit whose failure ends the drawing logic of the iteration
SubmitOrAbort(ok) ==
    /\ pc = "match" /\ Idle
    /\ frame.outcome = "damage"
    /\ frame' = Did(<<IF ok THEN "submit" ELSE "submit_failed">>)
    /\ pc' = IF ok THEN "feedback" ELSE "dispatch"
    /\ last' = Other
    /\ UNCHANGED <<fullscreen, stack, composed, running>>
    /\ UNCHANGED frameVars
    /\ UNCHANGED full_redraw

\* Ok with damage: backend.submit(Some(damage)); an Err is only logged
Submit(ok) ==
    /\ pc = "match" /\ Idle
    /\ frame.outcome = "damage"
    /\ frame' = Did(<<IF ok THEN "submit" ELSE "submit_failed">>)
    /\ pc' = "feedback"
    /\ last' = Other
    /\ UNCHANGED <<fullscreen, stack, composed, running>>
    /\ UNCHANGED frameVars
    /\ UNCHANGED full_redraw

\* an Ok arm that sends no frame callbacks when nothing was repainted
NothingRenderedNoPostRepaint ==
    /\ pc = "match" /\ Idle
    /\ frame.outcome = "no_damage"
    /\ pc' = "dispatch"
    /\ last' = Other
    /\ UNCHANGED <<fullscreen, stack, composed, running, frame>>
    /\ UNCHANGED frameVars
    /\ UNCHANGED full_redraw

\* Ok without damage: neither submit nor presentation feedback
NothingRendered ==
    /\ pc = "match" /\ Idle
    /\ frame.outcome = "no_damage"
    /\ pc' = "post_repaint"
    /\ last' = Other
    /\ UNCHANGED <<fullscreen, stack, composed, running, frame>>
    /\ UNCHANGED frameVars
    /\ UNCHANGED full_redraw

\* has_rendered: take_presentation_feedback(..).presented(..)
PresentationFeedback ==
    /\ pc = "feedback" /\ Idle
    /\ frame' = Did(<<"feedback">>)
    /\ pc' = "post_repaint"
    /\ last' = Other
    /\ UNCHANGED <<fullscreen, stack, composed, running>>
    /\ UNCHANGED frameVars
    /\ UNCHANGED full_redraw

\* state.post_repaint(&output, frame_target, None, &states)
FramePostRepaint ==
    /\ pc = "post_repaint" /\ Idle
    /\ frame' = Did(<<"fifo_barrier", "frame_callbacks">>)
    /\ pc' = "dispatch"
    /\ last' = [Op("post_repaint", None, windows) EXCEPT
                    !.framed = post_repaint(mapped, alive)]
    /\ UNCHANGED <<fullscreen, stack, composed, running>>
    /\ UNCHANGED frameVars
    /\ UNCHANGED full_redraw

\* a ContextLost arm that only logs
RenderErrorContextLostLogged ==
    /\ pc = "match" /\ Idle
    /\ frame.outcome = "context_lost"
    /\ pc' = "dispatch"
    /\ last' = Other
    /\ UNCHANGED <<fullscreen, stack, composed, running, frame>>
    /\ UNCHANGED frameVars
    /\ UNCHANGED full_redraw

\* Err(SwapBuffersError::ContextLost(err)): running.store(false)
RenderErrorContextLost ==
    /\ pc = "match" /\ Idle
    /\ frame.outcome = "context_lost"
    /\ running' = FALSE
    /\ pc' = "dispatch"
    /\ last' = Other
    /\ UNCHANGED <<fullscreen, stack, composed, frame>>
    /\ UNCHANGED frameVars
    /\ UNCHANGED full_redraw

\* an Err(err) arm that sends the frame callbacks all the same
RenderErrorOtherWithPostRepaint ==
    /\ pc = "match" /\ Idle
    /\ frame.outcome = "recoverable"
    /\ frame' = Did(<<"fifo_barrier", "frame_callbacks">>)
    /\ pc' = "dispatch"
    /\ last' = Other
    /\ UNCHANGED <<fullscreen, stack, composed, running>>
    /\ UNCHANGED frameVars
    /\ UNCHANGED full_redraw

\* an Err(err) arm that stops the loop
RenderErrorOtherFatal ==
    /\ pc = "match" /\ Idle
    /\ frame.outcome = "recoverable"
    /\ running' = FALSE
    /\ pc' = "dispatch"
    /\ last' = Other
    /\ UNCHANGED <<fullscreen, stack, composed, frame>>
    /\ UNCHANGED frameVars
    /\ UNCHANGED full_redraw

\* Err(err) => tracing::warn!("Rendering error: {}", err)
RenderErrorOther ==
    /\ pc = "match" /\ Idle
    /\ frame.outcome = "recoverable"
    /\ pc' = "dispatch"
    /\ last' = Other
    /\ UNCHANGED <<fullscreen, stack, composed, running, frame>>
    /\ UNCHANGED frameVars
    /\ UNCHANGED full_redraw

\* event_loop.dispatch(..): Ok runs space.refresh(), popups.cleanup() and
\* flush_clients(); Err clears running
FrameDispatch(ok) ==
    /\ pc = "dispatch" /\ Idle
    /\ IF ok
       THEN /\ mapped' = space_refresh(mapped, alive)
            /\ stack' = SelectSeq(stack, LAMBDA h : alive[h])
            /\ running' = running
       ELSE /\ running' = FALSE
            /\ UNCHANGED <<mapped, stack>>
    /\ pc' = "while"
    /\ layoutInTick' = FALSE
    /\ last' = Other
    /\ UNCHANGED <<fullscreen, composed, frame>>
    /\ UNCHANGED <<windows, alive, toplevels, outputs, pendingSize, sentSize,
                   crashed, requests, rgpc, rgi, apps, mode,
                   show_window_preview, hasMode, full_redraw, outputLoc>>

NextFrame ==
    \/ EnterLoop
    \/ \E s \in OutputSizes : Resized(s)
    \/ LoopCheck
    \/ FramePump
    \/ FramePumpExit
    \/ PreRepaint
    \/ \E res \in {"ok"} \cup RenderErrors : Bind(res)
    \/ ResetBuffers
    \/ DecrementFullRedraw
    \/ \E res \in {"damage", "no_damage"} \cup RenderErrors :
          \E buffer_age \in BufferAges : FrameRenderOutput(res, buffer_age)
    \/ \E ok \in BOOLEAN : Submit(ok)
    \/ NothingRendered
    \/ PresentationFeedback
    \/ FramePostRepaint
    \/ RenderErrorContextLost
    \/ RenderErrorOther
    \/ \E ok \in BOOLEAN : FrameDispatch(ok)

SpecFrame == InitCompose /\ [][NextFrame]_vars

\* ---- properties ----------------------------------------------------------------

Range(s) == {s[i] : i \in DOMAIN s}
LiveIdx(ws, al) == {i \in DOMAIN ws : al[ws[i]]}
MaxOf(S) == CHOOSE m \in S : \A n \in S : n <= m
\* the most recently inserted window that is alive, None if there is none
MostRecentLive(ws, al) ==
    IF LiveIdx(ws, al) = {} THEN None ELSE ws[MaxOf(LiveIdx(ws, al))]
Count(ws, h) == Cardinality({i \in DOMAIN ws : ws[i] = h})
LayoutDone == last.op \in {"refresh", "resized"} /\ rgpc = "idle"

\* C1: in Fullscreen layout, after refresh_geometry on a non-empty WindowSet
\* (duplicate handles allowed) exactly one window, the most recently inserted
\* live one, is mapped at the origin with the output's size requested, and
\* every other window of the set is unmapped.
C1_FullscreenExactlyOne ==
    (LayoutDone /\ ~crashed /\ windows # <<>>) =>
        LET a == MostRecentLive(windows, alive)
        IN /\ a # None
           /\ mapped[a] = Origin
           /\ pendingSize[a] = outputs[1]
           /\ \A h \in Range(windows) : h # a => mapped[h] = NotMapped
           /\ Cardinality({h \in Range(windows) : mapped[h] # NotMapped}) = 1

\* C2: immediately after the prune of refresh_geometry no window that remains
\* in the set reports not-alive.
C2_NoDeadAfterPrune ==
    last.op \in {"refresh", "resized"} =>
        \A i \in DOMAIN windows : alive[windows[i]]

C2_Witness ==
    /\ last.op = "refresh"
    /\ Len(windows) > 0
    /\ Len(last.pre) > Len(windows)

\* C3: the prune leaves exactly the live entries of the previous sequence, in
\* the same relative order and with the same multiplicity: the k-th entry of
\* the result is the entry at the k-th live position of the previous sequence.
C3_PruneIsLiveSubsequence ==
    last.op \in {"refresh", "resized"} =>
        LET pre == last.pre
            live == LiveIdx(pre, alive)
        IN /\ Len(windows) = Cardinality(live)
           /\ \A i \in live :
                windows[Cardinality({j \in live : j <= i})] = pre[i]
           /\ \A h \in Handles :
                Count(windows, h) = IF alive[h] THEN Count(pre, h) ELSE 0

C3_Witness ==
    /\ last.op = "refresh"
    /\ Len(last.pre) = 3
    /\ Len(windows) = 2
    /\ windows[1] # windows[2]
    /\ ~alive[last.pre[2]]

\* C4: whenever the WindowSet is non-empty, active() is the most recently
\* inserted window that is still alive, also before a prune has run.
C4_ActiveIsMostRecentLive ==
    (windows # <<>> /\ rgpc = "idle") =>
        /\ get_active_window(windows) # None
        /\ get_active_window(windows) = MostRecentLive(windows, alive)

\* C5: insert(w) appends w to the previous sequence, also when w is already
\* a member, and active() then returns w; active() of the empty set is none.
C5_InsertAppends ==
    /\ last.op = "insert" =>
          /\ Len(windows) = Len(last.pre) + 1
          /\ \A i \in DOMAIN last.pre : windows[i] = last.pre[i]
          /\ windows[Len(windows)] = last.w
          /\ get_active_window(windows) = last.w
    /\ windows = <<>> => get_active_window(windows) = None

C5_Witness ==
    /\ last.op = "insert"
    /\ last.w \in Range(last.pre)
    /\ Count(windows, last.w) = 2

\* C6: every toplevel surface a client maps is inserted into the WindowSet and
\* layout is triggered, and a window leaves the WindowSet only by the prune,
\* after its liveness check failed.
C6_MappedToplevelInserted ==
    [][ /\ \A w \in Handles :
             (w \notin toplevels /\ w \in toplevels') =>
                 (w \in Range(windows') /\ layoutInTick')
        /\ \A h \in Handles :
             Count(windows', h) < Count(windows, h) =>
                 (~alive[h] /\ last'.op \in {"refresh", "resized"})
      ]_vars

\* C7: refresh_geometry runs on every resize of the output and once in every
\* iteration of the main loop.
C7_LayoutEveryTick ==
    [][ /\ last'.op = "resized" => layoutInTick'
        /\ (pc = "dispatch" /\ pc' = "pump") => layoutInTick
      ]_vars

\* C8: refresh_geometry with no output registered issues no resize,
\* configure, map or unmap request to any window.
C8_NoOutputNoRequests ==
    (last.op = "refresh" /\ outputs = <<>>) =>
        /\ requests = <<>>
        /\ crashed

C8_Witness ==
    /\ last.op = "refresh"
    /\ outputs = <<>>
    /\ Len(windows) >= 2
    /\ \E h \in Handles : ~alive[h] /\ h \in Range(last.pre)

\* C9: a layout request with no output registered aborts that tick only; the
\* main loop is still able to run later ticks.
C9_NoOutputFatalForTickOnly ==
    (last.op = "refresh" /\ outputs = <<>>) => ~crashed

\* C10: refresh_geometry never issues a request to a window that is dead at
\* the moment the request is issued.
C10_NoRequestToDeadWindow ==
    \A i \in DOMAIN requests : requests[i].alive

\* C11: refresh_geometry called twice in a row, with no WindowSet mutation,
\* liveness change or output change in between, leaves the same mapped set
\* and the same rectangle (location, requested size) for every window.
C11_LayoutIdempotent ==
    (LayoutDone /\ ~crashed /\ last.geo # NoSnap) =>
        /\ last.geo.mp = mapped
        /\ last.geo.ps = pendingSize
        /\ last.pre = windows

C11_Witness ==
    /\ last.op = "refresh"
    /\ ~crashed
    /\ last.geo # NoSnap
    /\ Len(windows) >= 2
    /\ \E h \in Handles : mapped[h] # NotMapped

\* C12: resize requests coalesce to the latest requested size, and repeating
\* a request with an unchanged size emits no additional configure.
C12_RepeatedResizeNoConfigure ==
    (LayoutDone /\ ~crashed /\ last.geo # NoSnap /\ windows # <<>>) =>
        /\ pendingSize[get_active_window(windows)] = outputs[1]
        /\ \A i \in DOMAIN requests : requests[i].kind # "configure"

\* C13: in Fullscreen mode no non-active window of the WindowSet is sent a
\* frame callback by post_repaint.
C13_NoFrameForHidden ==
    (last.op = "post_repaint" /\ windows # <<>>) =>
        \A h \in Range(windows) :
            h # get_active_window(windows) => h \notin last.framed

\* the requests of the latest layout call that map a window
MapRequests == SelectSeq(requests, LAMBDA r : r.kind = "map")
AppLayoutDone == last.op = "app_refresh" /\ ~crashed

\* C14: in Overview layout every live window is requested the size
\* (outputW - 400, outputH - 400), and the windows are laid out in recency
\* order, most recently inserted first.
C14_OverviewSizeAndOrder ==
    AppLayoutDone =>
        /\ \A h \in Range(apps) :
             pendingSize[h] = <<outputs[1][1] - 400, outputs[1][2] - 400>>
        /\ Len(MapRequests) = Len(apps)
        /\ \A k \in DOMAIN MapRequests :
             MapRequests[k].w = apps[Len(apps) + 1 - k]

C14_Witness ==
    /\ AppLayoutDone
    /\ Len(apps) = 3
    /\ Len(last.pre) = 3
    /\ apps[1] # apps[2] /\ apps[2] # apps[3] /\ apps[1] # apps[3]

\* C15: in Overview layout the window at index 0 of the reverse insertion
\* order is placed at (200, 200) and the window at index i > 0 at
\* (width * i + 200, 200) with width = outputW - 400; windows A, B, C on a
\* 1920x1080 output end at C (200,200), B (1720,200), A (3240,200).
C15_OverviewPlacement ==
    AppLayoutDone =>
        /\ \A k \in DOMAIN MapRequests :
             MapRequests[k].loc =
                 IF k = 1 THEN <<200, 200>>
                 ELSE <<(outputs[1][1] - 400) * (k - 1) + 200, 200>>
        /\ (apps = <<1, 2, 3>> /\ outputs[1] = <<1920, 1080>>) =>
             /\ mapped[3] = <<200, 200>>
             /\ mapped[2] = <<1720, 200>>
             /\ mapped[1] = <<3240, 200>>

C15_Witness ==
    /\ AppLayoutDone
    /\ apps = <<1, 2, 3>>
    /\ outputs[1] = <<1920, 1080>>

\* target rectangle of a mapped window: its location and requested size
RectOverlap(l1, s1, l2, s2) ==
    /\ l1[1] < l2[1] + s2[1] /\ l2[1] < l1[1] + s1[1]
    /\ l1[2] < l2[2] + s2[2] /\ l2[2] < l1[2] + s1[2]

\* C16: in Overview mode, after layout, all live windows of the WindowSet are
\* mapped and their target rectangles are pairwise non-overlapping.
C16_OverviewNoOverlap ==
    AppLayoutDone =>
        /\ \A h \in Range(apps) : mapped[h] # NotMapped
        /\ \A h1, h2 \in Range(apps) :
             h1 # h2 => ~RectOverlap(mapped[h1], pendingSize[h1],
                                     mapped[h2], pendingSize[h2])

C16_Witness ==
    /\ AppLayoutDone
    /\ Cardinality(Range(apps)) = 3
    /\ outputs[1] = <<1280, 720>>

GridDone == last.op = "preview"
GridN == Len(last.cells.cells)

\* C17: the preview grid has columns = min(N, 4) and rows = ceil(N / columns):
\* N in 1..4 gives N columns in one row, N in 5..8 gives 4 columns in 2 rows.
C17_GridShape ==
    GridDone =>
        LET c == last.cells.columns
            r == last.cells.rows
        IN /\ c <= GridN /\ c <= 4 /\ (c = GridN \/ c = 4)
           /\ r * c >= GridN /\ (r - 1) * c < GridN
           /\ GridN \in 1..4 => (c = GridN /\ r = 1)
           /\ GridN \in 5..8 => (c = 4 /\ r = 2)

C17_Witness ==
    /\ GridDone
    /\ GridN = 7
    /\ last.cells.rows = 2

CellsDisjoint(cells) ==
    \A i, j \in DOMAIN cells :
        i # j => ~RectOverlap(cells[i].loc, cells[i].size,
                              cells[j].loc, cells[j].size)

CellsInside(cells, ow, oh) ==
    \A i \in DOMAIN cells :
        /\ cells[i].loc[1] >= 10
        /\ cells[i].loc[2] >= 10
        /\ cells[i].loc[1] + cells[i].size[1] <= ow - 10
        /\ cells[i].loc[2] + cells[i].size[2] <= oh - 10

\* C18, as stated: for every N >= 1 and every output size the N cells are
\* pairwise non-overlapping and each lies inside the output shrunk by the
\* padding on every side.
C18_CellsInsideAnyOutput ==
    GridDone =>
        /\ CellsDisjoint(last.cells.cells)
        /\ CellsInside(last.cells.cells, outputs[1][1], outputs[1][2])

\* C18, amended: the same for every N >= 1 and every output size on which the
\* cell size is not negative (round(outputW / columns) >= 2 * padding and
\* round(outputH / rows) >= 2 * padding).
C18_CellsInsideWhenNonNegative ==
    (GridDone /\ last.cells.size[1] >= 0 /\ last.cells.size[2] >= 0) =>
        /\ CellsDisjoint(last.cells.cells)
        /\ CellsInside(last.cells.cells, outputs[1][1], outputs[1][2])

C18_Witness ==
    /\ GridDone
    /\ GridN = 9
    /\ outputs[1] = <<1366, 768>>
    /\ last.cells.size[1] > 0

\* C19: cellW = round(outputW / columns) - 2 * padding and cellH =
\* round(outputH / rows) - 2 * padding; element i sits in column i mod columns
\* and row i div columns at (padding + (padding + cellW) * column,
\* padding + (padding + cellH) * row) with size (cellW, cellH); N = 5 on
\* 1920x1080 gives cells of 460x520 and element 4 at (10, 540).
C19_CellGeometry ==
    GridDone =>
        LET c == last.cells.columns
            r == last.cells.rows
            cw == last.cells.size[1]
            ch == last.cells.size[2]
            ow == outputs[1][1]
            oh == outputs[1][2]
        IN \* cw + 20 is outputW / columns rounded to nearest, halves up
           /\ 2 * c * (cw + 20) <= 2 * ow + c
           /\ 2 * ow + c < 2 * c * (cw + 20 + 1)
           /\ 2 * r * (ch + 20) <= 2 * oh + r
           /\ 2 * oh + r < 2 * r * (ch + 20 + 1)
           /\ \A k \in 1..GridN :
                /\ last.cells.cells[k].size = <<cw, ch>>
                /\ last.cells.cells[k].loc =
                     <<10 + (10 + cw) * ((k - 1) % c),
                       10 + (10 + ch) * ((k - 1) \div c)>>
           /\ (GridN = 5 /\ outputs[1] = <<1920, 1080>>) =>
                /\ cw = 460 /\ ch = 520
                /\ last.cells.cells[5].loc = <<10, 540>>

C19_Witness ==
    /\ GridDone
    /\ GridN = 5
    /\ outputs[1] = <<1920, 1080>>

\* C20: computing the preview grid changes neither the WindowSet, nor a
\* window's mapped location or requested size, nor the output.
C20_PreviewIsPure ==
    [][ last'.op = "preview" =>
          /\ windows' = windows /\ apps' = apps
          /\ mapped' = mapped
          /\ pendingSize' = pendingSize /\ sentSize' = sentSize
          /\ outputs' = outputs
      ]_vars

C20_Witness ==
    /\ GridDone
    /\ Len(windows) >= 2
    /\ \E h \in Handles : mapped[h] = Origin /\ pendingSize[h] = outputs[1]

\* ---- composition ----

\* output_elements or render_output is the call made last
ComposeDone ==
    composed.called /\ last.op \in {"output_elements", "render_output"}

Kinds(elements) == {elements[k].kind : k \in DOMAIN elements}

\* the slot held a live window when the call was made
LiveOverride == composed.slot # None /\ alive[composed.slot]

\* the number of preview elements the call had to give
PreviewCount == IF show_window_preview /\ Len(stack) > 0 THEN Len(stack) ELSE 0

\* C21: the list output_elements gives never holds both elements of the
\* fullscreen-override window and space or preview elements.
C21_PathsExclusive ==
    (ComposeDone /\ ~crashed) =>
        ~ /\ "window" \in Kinds(composed.elements)
          /\ Kinds(composed.elements) \cap {"space", "preview"} # {}

C21_Witness ==
    /\ ComposeDone
    /\ composed.path = "fullscreen"
    /\ Len(stack) >= 2
    /\ show_window_preview

\* C22: with a live window in the override slot output_elements gives exactly
\* the caller's elements followed by that window's elements at the origin and
\* the fully transparent clear color, whatever the preview flag is.
C22_FullscreenPath ==
    (ComposeDone /\ LiveOverride) =>
        LET e == composed.elements
            c == Len(composed.custom)
        IN /\ ~crashed
           /\ Len(e) = c + 1
           /\ \A k \in 1..c : e[k] = [kind |-> "custom", of |-> composed.custom[k],
                                      loc |-> <<0, 0>>]
           /\ e[c + 1] = [kind |-> "window", of |-> composed.slot, loc |-> <<0, 0>>]
           /\ composed.clear_color = <<0, 0, 0, 0>>

C22_Witness ==
    /\ ComposeDone
    /\ LiveOverride
    /\ show_window_preview
    /\ Len(stack) >= 1
    /\ Len(composed.custom) = 2

\* C23: with no live window in the override slot output_elements gives the
\* caller's elements, then the preview elements if and only if the preview
\* flag is set and the output has an element, then the space elements in
\* stacking order from the top, and the opaque clear color.
C23_NormalPath ==
    (ComposeDone /\ ~crashed /\ ~LiveOverride) =>
        LET e == composed.elements
            c == Len(composed.custom)
            n == Len(stack)
            p == PreviewCount
        IN /\ Len(e) = c + p + n
           /\ \A k \in 1..c : e[k].kind = "custom" /\ e[k].of = composed.custom[k]
           /\ \A k \in 1..p : e[c + k].kind = "preview" /\ e[c + k].of = stack[k]
           /\ \A k \in 1..n :
                /\ e[c + p + k].kind = "space"
                /\ e[c + p + k].of = stack[n + 1 - k]
                /\ e[c + p + k].loc = mapped[stack[n + 1 - k]]
           /\ composed.clear_color = <<0, 0, 0, 1>>

C23_Witness ==
    /\ ComposeDone
    /\ ~LiveOverride
    /\ show_window_preview
    /\ Len(stack) >= 2
    /\ Len(composed.custom) >= 1

\* C24: the slot never hands out a dead window; when the window it holds has
\* died the read gives none, the slot is cleared, and the call composes the
\* normal path.
C24_SlotChecksLiveness ==
    ComposeDone =>
        /\ \A k \in DOMAIN composed.elements :
             composed.elements[k].kind = "window" => alive[composed.elements[k].of]
        /\ (composed.slot # None /\ ~alive[composed.slot]) =>
             /\ fullscreen = None
             /\ composed.path = "normal"
             /\ "window" \notin Kinds(composed.elements)

C24_Witness ==
    /\ ComposeDone
    /\ ~crashed
    /\ composed.slot # None
    /\ ~alive[composed.slot]
    /\ Len(stack) >= 1

\* C29: render_output hands the damage tracker either the whole element list
\* (every custom element, the previews when they apply, every space element)
\* or, when the output has no mode, nothing at all.
C29_AllOrNothing ==
    last.op = "render_output" =>
        IF composed.handed
        THEN /\ ~crashed
             /\ composed.tracked = composed.elements
             /\ Len(composed.tracked) =
                  Len(composed.custom) +
                  (IF LiveOverride THEN 1 ELSE PreviewCount + Len(stack))
             /\ LiveOverride \/ hasMode
        ELSE /\ crashed
             /\ composed.tracked = <<>>
             /\ composed.elements = <<>>
             /\ ~hasMode

C29_Witness ==
    /\ last.op = "render_output"
    /\ ~hasMode
    /\ crashed
    /\ ~composed.handed
    /\ show_window_preview
    /\ Len(stack) >= 1
    /\ Len(composed.custom) >= 1

Events == {frame.events[i] : i \in DOMAIN frame.events}

\* every b among the events of the iteration has an a before it
Before(a, b) ==
    \A i \in DOMAIN frame.events :
        frame.events[i] = b => \E j \in 1..(i - 1) : frame.events[j] = a

\* no event happens twice in one iteration
OncePerTick ==
    \A i, j \in DOMAIN frame.events :
        frame.events[i] = frame.events[j] => i = j

\* C25, as stated: the element list is built before the render call, and
\* presentation feedback and every timing-barrier signal (commit timer, fifo)
\* of an iteration come only after that iteration's render call; an iteration
\* starts with nothing of the previous one outstanding.
C25_BarriersAfterRendering ==
    /\ Before("compose", "render")
    /\ \A ev \in {"feedback", "commit_timer", "fifo_barrier"} : Before("render", ev)
    /\ pc = "pump" => frame.events = <<>>

\* C25, amended: the commit-timer barriers are signaled by pre_repaint before
\* the element list is built; the list is built before the render call;
\* submit, presentation feedback, fifo-barrier signaling and frame callbacks
\* come only after the render call, feedback before the fifo barriers; each
\* happens at most once and an iteration starts with nothing outstanding.
C25_FrameOrder ==
    /\ Before("commit_timer", "compose")
    /\ Before("compose", "render")
    /\ \A ev \in {"submit", "submit_failed", "feedback", "fifo_barrier",
                  "frame_callbacks"} : Before("render", ev)
    /\ ("feedback" \in Events /\ "fifo_barrier" \in Events) =>
          Before("feedback", "fifo_barrier")
    /\ Before("fifo_barrier", "frame_callbacks")
    /\ OncePerTick
    /\ pc = "pump" => frame.events = <<>>

C25_Witness ==
    /\ pc = "while"
    /\ frame.tick = 2
    /\ frame.events = <<"commit_timer", "compose", "render", "submit",
                        "feedback", "fifo_barrier", "frame_callbacks">>

\* C26: in an iteration whose bind or render failed no buffer is submitted,
\* no presentation feedback is distributed and no frame callback is sent.
C26_RenderFailureAborts ==
    frame.outcome \in RenderErrors =>
        Events \cap {"submit", "submit_failed", "feedback", "frame_callbacks"} = {}

C26_Witness ==
    /\ frame.outcome = "recoverable"
    /\ "render" \in Events
    /\ pc = "while"
    /\ running

\* C27: render_output is called at most once in an iteration; the arm for a
\* recoverable render error leaves the running flag alone and goes on to the
\* event dispatch, and the iteration after it binds and renders like any other.
C27_NoRetryWithinTick ==
    [][ /\ frame'.renders <= 1
        /\ (pc = "match" /\ frame.outcome = "recoverable") =>
              /\ running' = running
              /\ pc' = "dispatch"
              /\ frame'.renders = frame.renders
        /\ (frame'.prev = "recoverable" /\ pc' = "dispatch") =>
              frame'.outcome # "none"
      ]_vars

C27_Witness ==
    /\ frame.prev = "recoverable"
    /\ frame.renders = 1
    /\ "render" \in Events

\* C28: a context-lost render error clears the running flag, and no loop
\* iteration (so no composition and no render) follows the one it occurred in.
C28_ContextLostIsFatal ==
    /\ frame.prev # "context_lost"
    /\ (frame.outcome = "context_lost" /\ pc # "match") => ~running
    /\ (frame.outcome = "context_lost") => frame.renders <= 1

C28_Witness ==
    /\ frame.outcome = "context_lost"
    /\ "render" \in Events
    /\ pc = "stopped"

\* ---- the full-redraw counter ----

\* pc values at which the age of the current iteration has just been chosen
AgeChosen == pc \in {"match", "feedback", "post_repaint"} /\ frame.age # -1

\* C34: reset_buffers sets full_redraw to 4; every iteration takes one off,
\* stopping at 0, before the age is chosen; the age handed to the damage
\* tracker is 0 in the three iterations after a reset_buffers and the backend
\* buffer age (0 if there is none) in every other one; the counter stays
\* within 0..4.
C34_FullRedrawCounter ==
    /\ full_redraw \in 0..4
    /\ frame.resetAgo = -1 => full_redraw = 0
    /\ frame.resetAgo = 0 => full_redraw = 4
    /\ frame.resetAgo \in 1..3 => full_redraw = 4 - frame.resetAgo
    /\ frame.resetAgo > 3 => full_redraw = 0
    /\ AgeChosen =>
          IF frame.resetAgo \in 1..3
          THEN frame.age = 0
          ELSE frame.age = (IF frame.buffer_age = -1 THEN 0 ELSE frame.buffer_age)

C34_Witness ==
    /\ AgeChosen
    /\ frame.resetAgo = 4
    /\ frame.age = 2
    /\ frame.prev \in RenderErrors

\* ---- the loop around the drawing logic ----

\* pc values inside the drawing logic of an iteration
DrawingPcs == {"pre_repaint", "full_redraw", "bind", "render", "match",
               "feedback", "post_repaint"}

\* C31: a step that inserts into or prunes the WindowSet or runs layout is
\* taken only while events are pumped, before the drawing logic of that
\* iteration has begun; none is taken between the start of composition and
\* the end of the render call.
C31_NoLayoutWhileDrawing ==
    [][ (\/ last'.op \in {"insert", "refresh", "resized"}
         \/ windows' # windows) =>
            /\ pc \in {"init", "pump"}
            /\ pc' = pc
            /\ frame.events = <<>>
            /\ frame'.events = <<>>
            /\ composed' = composed
      ]_vars

C31_Witness ==
    /\ last.op = "resized"
    /\ pc = "pump"
    /\ frame.tick = 2
    /\ outputs[1] = <<1920, 1080>>
    /\ composed.called

\* C35: when the render of an iteration succeeds, backend.submit is called
\* and presentation feedback is distributed exactly when the result carries
\* damage; without damage neither happens, and post_repaint sends the frame
\* callbacks in both cases.
C35_SubmitIffDamage ==
    (pc = "dispatch" /\ frame.outcome \in {"damage", "no_damage"}) =>
        /\ (frame.outcome = "damage") <=>
              (Events \cap {"submit", "submit_failed"} # {})
        /\ (frame.outcome = "damage") <=> ("feedback" \in Events)
        /\ "frame_callbacks" \in Events

C35_Witness ==
    /\ pc = "dispatch"
    /\ frame.outcome = "no_damage"
    /\ "frame_callbacks" \in Events
    /\ "feedback" \notin Events

\* C36: when the render succeeds with damage and backend.submit fails, the
\* iteration goes on: presentation feedback is reported, the frame callbacks
\* are sent, and the running flag stays set.
C36_SubmitFailureNotFatal ==
    (pc = "dispatch" /\ "submit_failed" \in Events) =>
        /\ frame.outcome = "damage"
        /\ "feedback" \in Events
        /\ "frame_callbacks" \in Events
        /\ running

C36_Witness ==
    /\ pc = "dispatch"
    /\ "submit_failed" \in Events
    /\ "submit" \notin Events

\* C37: the running flag is never set again once cleared; while it is clear
\* no step of the drawing logic is taken and no new iteration begins; a winit
\* Exit ends the loop before the drawing logic of that iteration.
C37_Termination ==
    [][ /\ ~running => ~running'
        /\ ~running =>
              /\ frame'.events = frame.events
              /\ frame'.tick = frame.tick
              /\ frame'.renders = frame.renders
              /\ pc' \in {"dispatch", "while", "stopped"}
        /\ (running /\ ~running' /\ pc = "pump") =>
              /\ pc' = "stopped"
              /\ frame.events = <<>>
      ]_vars

C37_Witness ==
    /\ pc = "stopped"
    /\ ~running
    /\ frame.tick = 2
    /\ frame.events = <<>>

\* ---- Overview row ----------------------------------------------------------------

\* window_width of the latest Overview layout
OverviewWidth == preview_window_size(outputs[1][1], outputs[1][2])[1]

\* space left between the right edge of the k-th placed window and the left
\* edge of the next one; negative when they overlap
OverviewGap(k) ==
    MapRequests[k + 1].loc[1] - (MapRequests[k].loc[1] + OverviewWidth)

WindowSetOps == {"insert", "remove_dead", "get_active"}

\* C32: insert, prune and active have no effect beyond membership: a step of
\* one of them leaves every output's geometry and override slot and every
\* window's mapped location and requested size as they were, and issues no
\* request; active does not change the membership either.
C32_WindowSetOpsFrame ==
    [][ last'.op \in WindowSetOps =>
          /\ outputs' = outputs
          /\ outputLoc' = outputLoc
          /\ fullscreen' = fullscreen
          /\ mapped' = mapped
          /\ pendingSize' = pendingSize
          /\ sentSize' = sentSize
          /\ requests' = requests
          /\ alive' = alive
          /\ last'.op = "insert" => windows' = Append(windows, last'.w)
          /\ last'.op = "remove_dead" =>
                windows' = SelectSeq(windows, LAMBDA h : alive[h])
          /\ last'.op = "get_active" =>
                /\ windows' = windows
                /\ last'.w = IF windows = <<>> THEN None
                             ELSE windows[Len(windows)] ]_vars

\* a prune has dropped a dead window that is still mapped with its requested
\* size, on a mapped output
C32_Witness ==
    /\ last.op = "remove_dead"
    /\ Len(windows) < Len(last.pre)
    /\ Len(outputs) > 0
    /\ \E h \in Range(last.pre) :
         /\ ~alive[h]
         /\ h \notin Range(windows)
         /\ mapped[h] = Origin
         /\ pendingSize[h] = outputs[1]

\* ---- Resized ---------------------------------------------------------------------

ResizedDone == last.op = "resized" /\ ~crashed

\* C38: after a Resized event the mode is updated before the layout runs:
\* when the WindowSet is non-empty afterwards, the active window's requested
\* size equals the new output size and it is mapped at (0,0).
C38_ResizedActiveFillsOutput ==
    (ResizedDone /\ windows # <<>>) =>
        /\ pendingSize[get_active_window(windows)] = outputs[1]
        /\ mapped[get_active_window(windows)] = Origin

\* the part of C38 about the requested size
C38_ResizedActiveSize ==
    (ResizedDone /\ windows # <<>>) =>
        pendingSize[get_active_window(windows)] = outputs[1]

\* C38 for a WindowSet that holds no handle twice
C38_ResizedNoDuplicates ==
    (ResizedDone /\ windows # <<>> /\ Cardinality(Range(windows)) = Len(windows)) =>
        /\ pendingSize[get_active_window(windows)] = outputs[1]
        /\ mapped[get_active_window(windows)] = Origin

\* ---- fixup outputs ---------------------------------------------------------------

FixupDone == last.op = "fixup"

\* the widths of the first n outputs added up
RECURSIVE SumWidths(_)
SumWidths(n) == IF n = 0 THEN 0 ELSE SumWidths(n - 1) + outputs[n][1]

\* C39: after fixup_positions the outputs are in one row in registration
\* order starting at (0,0): the origin of output k is (sum of the widths of
\* the outputs before it, 0), so the output rectangles are pairwise
\* non-overlapping and each starts where the one before it ends.
C39_OutputsInARow ==
    FixupDone =>
        /\ Len(outputLoc) = Len(outputs)
        /\ \A k \in DOMAIN outputs : outputLoc[k] = <<SumWidths(k - 1), 0>>
        /\ \A j, k \in DOMAIN outputs :
             j # k => ~RectOverlap(outputLoc[j], outputs[j],
                                   outputLoc[k], outputs[k])
        /\ \A k \in 1..(Len(outputs) - 1) :
             outputLoc[k + 1] = <<outputLoc[k][1] + outputs[k][1], outputLoc[k][2]>>

\* three outputs of two different widths, put in a row
C39_Witness ==
    /\ FixupDone
    /\ ~crashed
    /\ outputs = <<<<1920, 1080>>, <<1280, 720>>, <<1920, 1080>>>>
    /\ outputLoc = <<<<0, 0>>, <<1920, 0>>, <<3200, 0>>>>

====
